---- MODULE Spec2Model ----
(***************************************************************************)
(* Model of index.py: download of two JotForm spreadsheets, aggregation    *)
(* by "NUCLEO_DE_ATUACAO" and by date, and construction of a Folium map    *)
(* with one FeatureGroup per nucleo.                                       *)
(*                                                                         *)
(* Text cells are sequences of one-character strings; a missing cell (the  *)
(* NaN that pandas.read_excel produces for an empty cell) is the           *)
(* one-element sequence NaN, which no text equals.  Column names are       *)
(* written without diacritics.  The sheets have every column the script    *)
(* indexes directly; Geolocation and the employee column, which it reads   *)
(* with row.get, may be missing.                                           *)
(***************************************************************************)
EXTENDS Integers, Sequences, FiniteSets, TLC

VARIABLES
    srv_ocorrencias,   \* spreadsheet the JotForm server holds at URL_OCORRENCIAS
    srv_area,          \* spreadsheet the JotForm server holds at URL_AREA_ATUACAO
    marker_validates,  \* installed folium: Marker raises ValueError on a NaN location
    pc,                \* position of the script
    requests_log,      \* requests.get calls made so far: <<url, outcome>>
    stdout,            \* lines printed / error reported
    df_ocorrencias,
    df_area,
    resumo_nucleo,     \* dict as the sequence of its items, in key order
    resumo_data,       \* dict as the sequence of its items, in key order
    m,                 \* the folium.Map: [menu_nucleo, menu_data, layers, control] or NoMap
    nucleos,
    cores_nucleo,
    bairro_i,          \* index of the outer loop in nucleos
    fg,                \* FeatureGroup under construction
    df_nucleo,         \* rows of the current nucleo
    row_i,             \* index of the inner loop in df_nucleo
    arquivo,           \* content of OUTPUT_PATH (NoFile until m.save)
    total_ocorrencias,
    soma_caixa_uma,
    total_quantidade_instalacao,
    total_rede_esgoto,
    total_rede_agua

totais == <<total_ocorrencias, soma_caixa_uma, total_quantidade_instalacao,
            total_rede_esgoto, total_rede_agua>>

vars == <<srv_ocorrencias, srv_area, marker_validates, pc, requests_log, stdout,
          df_ocorrencias, df_area, resumo_nucleo, resumo_data, m, nucleos,
          cores_nucleo, bairro_i, fg, df_nucleo, row_i, arquivo, totais>>

----------------------------------------------------------------------------
(* Configuration and column names *)

URL_OCORRENCIAS == "https://www.jotform.com/excel/242924996615066"

URL_AREA_ATUACAO == "https://www.jotform.com/excel/243393249284060"

COL_NUCLEO == "NUCLEO_DE_ATUACAO"

COL_CADASTRO == "OCORRENCIA DE CAMPO CADASTRO"

COL_DATA == "DATA CADASTRO"

COL_CAIXA == "OCORRENCIA DE CAMPO CAIXA UMA"

COL_LIGACAO == "OCORRENCIA DE CAMPO LIGACAO"

COL_ESGOTO == "TOTAL DE REDE ESGOTO 200"

COL_AGUA == "TOTAL DE REDE 110 AGUA"

COL_GEO == "Geolocation"

COL_FUNC == "FUNCIONARIO CADASTRO"

cores == <<"red", "blue", "green", "purple", "orange", "darkred", "cadetblue", "darkgreen">>

NaN == <<"NaN">>

NoMap == [menu_geral |-> <<>>, menu_nucleo |-> <<>>, menu_data |-> <<>>, layers |-> <<>>,
          control |-> FALSE, exists |-> FALSE]

NoFile == [written |-> FALSE, layers |-> <<>>, menu_geral |-> <<>>, menu_nucleo |-> <<>>,
           menu_data |-> <<>>]

NoGroup == [name |-> NaN, markers |-> <<>>]

----------------------------------------------------------------------------
(* pandas / Python primitives *)

\* pd.notna(x) for a cell
notna(x) == x # NaN

\* row.get(col, default)
RowGet(row, col, default) == IF col \in DOMAIN row THEN row[col] ELSE default

\* code points of the characters that occur in the modelled texts, ascending
CodeOrder == <<" ", "+", ",", "-", ".", "0", "1", "2", "3", "4", "5", "6", "7", "8", "9", ":",
               "A", "B", "C", "D", "E", "F", "G", "H", "I", "J", "K", "L", "N",
               "a", "b", "d", "f", "i", "n", "t", "x", "y">>

Ord(c) == CHOOSE k \in 1..Len(CodeOrder) : CodeOrder[k] = c

\* Python's str < str: lexicographic by code point
RECURSIVE StrLess(_, _)
StrLess(a, b) ==
    IF b = <<>> THEN FALSE
    ELSE IF a = <<>> THEN TRUE
    ELSE IF Head(a) = Head(b) THEN StrLess(Tail(a), Tail(b))
    ELSE Ord(Head(a)) < Ord(Head(b))

\* s.split(",")
RECURSIVE SplitFrom(_, _, _)
SplitFrom(s, k, cur) ==
    IF k > Len(s) THEN <<cur>>
    ELSE IF s[k] = "," THEN <<cur>> \o SplitFrom(s, k + 1, <<>>)
    ELSE SplitFrom(s, k + 1, Append(cur, s[k]))

split(s) == SplitFrom(s, 1, <<>>)

\* "," in s
HasComma(s) == \E k \in 1..Len(s) : s[k] = ","

\* str.strip() restricted to blanks
RECURSIVE lstrip(_)
lstrip(s) == IF s # <<>> /\ Head(s) = " " THEN lstrip(Tail(s)) ELSE s

RECURSIVE rstrip(_)
rstrip(s) == IF s # <<>> /\ s[Len(s)] = " " THEN rstrip(SubSeq(s, 1, Len(s) - 1)) ELSE s

strip(s) == rstrip(lstrip(s))

DigitChars == <<"0", "1", "2", "3", "4", "5", "6", "7", "8", "9">>

IsDigit(c) == \E d \in 1..Len(DigitChars) : DigitChars[d] = c

DigitVal(c) == (CHOOSE d \in 1..Len(DigitChars) : DigitChars[d] = c) - 1

AllDigits(s) == \A k \in 1..Len(s) : IsDigit(s[k])

RECURSIVE DigitsVal(_)
DigitsVal(s) == IF s = <<>> THEN 0 ELSE DigitsVal(SubSeq(s, 1, Len(s) - 1)) * 10 + DigitVal(s[Len(s)])

\* str.lower() on the letters of the words float() recognises
LowerChar(c) ==
    CASE c = "I" -> "i" [] c = "N" -> "n" [] c = "F" -> "f"
      [] c = "A" -> "a" [] c = "T" -> "t" [] c = "Y" -> "y" [] OTHER -> c

lower(s) == [k \in 1..Len(s) |-> LowerChar(s[k])]

(* A Python float: k = "fin" is the decimal m * 10^(-e) with no trailing zero *)
(* in the fraction, k = "inf" is m * infinity (m = 1 or -1), k = "nan" is     *)
(* not-a-number.  ValueError is the result of float() raising ValueError.     *)
Fin(mant, e) == [k |-> "fin", m |-> mant, e |-> e]

Inf(sign) == [k |-> "inf", m |-> sign, e |-> 0]

FloatNaN == [k |-> "nan", m |-> 0, e |-> 0]

ValueError == [k |-> "ValueError", m |-> 0, e |-> 0]

RECURSIVE Normal(_, _)
Normal(mant, e) == IF e > 0 /\ mant % 10 = 0 THEN Normal(mant \div 10, e - 1) ELSE Fin(mant, e)

\* the unsigned decimal forms "12", "12.", "12.5", ".5" (no exponent, no "_")
Decimal(s, sign) ==
    LET dots == {k \in 1..Len(s) : s[k] = "."} IN
    IF Cardinality(dots) > 1 THEN ValueError
    ELSE LET d    == IF dots = {} THEN Len(s) + 1 ELSE CHOOSE k \in dots : TRUE
             ip   == SubSeq(s, 1, d - 1)
             fp   == SubSeq(s, d + 1, Len(s))
         IN  IF ~AllDigits(ip) \/ ~AllDigits(fp) \/ (ip = <<>> /\ fp = <<>>) THEN ValueError
             ELSE Normal(sign * DigitsVal(ip \o fp), Len(fp))

Unsigned(s, sign) ==
    IF lower(s) \in {<<"i", "n", "f">>, <<"i", "n", "f", "i", "n", "i", "t", "y">>} THEN Inf(sign)
    ELSE IF lower(s) = <<"n", "a", "n">> THEN FloatNaN
    ELSE Decimal(s, sign)

\* float(s) for a str s
float(s) ==
    LET t == strip(s) IN
    IF t = <<>> THEN ValueError
    ELSE IF Head(t) = "-" THEN Unsigned(Tail(t), -1)
    ELSE IF Head(t) = "+" THEN Unsigned(Tail(t), 1)
    ELSE Unsigned(t, 1)

\* math.isnan / math.isfinite
isnan(x) == x.k = "nan"

isfinite(x) == x.k = "fin"

\* mutant of UnpackLatLng: the first two parts are taken and further parts ignored
UnpackLatLng_first_two(s) ==
    LET parts == split(s) IN
    IF Len(parts) < 2 THEN <<ValueError>>
    ELSE IF float(parts[1]) = ValueError \/ float(parts[2]) = ValueError THEN <<ValueError>>
    ELSE <<float(parts[1]), float(parts[2])>>

(* lat, lng = map(float, s.split(",")): the pair of floats, or ValueError    *)
(* when the unpacking finds more or fewer than two parts or a part is not a   *)
(* float.                                                                     *)
UnpackLatLng(s) ==
    LET parts == split(s) IN
    IF Len(parts) # 2 THEN <<ValueError>>
    ELSE IF float(parts[1]) = ValueError \/ float(parts[2]) = ValueError THEN <<ValueError>>
    ELSE <<float(parts[1]), float(parts[2])>>

(* folium.Marker(location=[lat, lng], ...): validate_location raises          *)
(* ValueError on a NaN coordinate in the folium releases that validate.       *)
MarkerRaises(loc, validates) == validates /\ (isnan(loc[1]) \/ isnan(loc[2]))

\* str.replace(",", ".", regex=False)
ReplaceComma(s) == [k \in 1..Len(s) |-> IF s[k] = "," THEN "." ELSE s[k]]

\* astype(str) of a cell: a missing cell becomes the text "nan"
astype_str(x) == IF x = NaN THEN <<"n", "a", "n">> ELSE x

(* pd.to_numeric(errors="coerce") of one text: its float, and the missing   *)
(* value (a float NaN) for a text that is no number.                        *)
to_numeric(s) == IF float(s) = ValueError THEN FloatNaN ELSE float(s)

(* converter_coluna_numerica(df, coluna), as the column of cells; for a     *)
(* missing column the empty Series, which assigned to the DataFrame gives   *)
(* a column of missing values.                                              *)
converter_coluna_numerica(df, coluna) ==
    [k \in 1..Len(df) |->
        IF coluna \in DOMAIN df[k] THEN to_numeric(ReplaceComma(astype_str(df[k][coluna])))
        ELSE FloatNaN]

RECURSIVE Pow10(_)
Pow10(n) == IF n = 0 THEN 1 ELSE 10 * Pow10(n - 1)

\* a + b for two floats
AddFloat(a, b) ==
    IF isnan(a) \/ isnan(b) THEN FloatNaN
    ELSE IF a.k = "inf" THEN (IF b.k = "inf" /\ b.m # a.m THEN FloatNaN ELSE a)
    ELSE IF b.k = "inf" THEN b
    ELSE LET e == IF a.e > b.e THEN a.e ELSE b.e
         IN  Normal(a.m * Pow10(e - a.e) + b.m * Pow10(e - b.e), e)

\* Series.sum(): the missing values are skipped, the empty sum is 0.0
RECURSIVE SumSeries(_)
SumSeries(col) ==
    IF col = <<>> THEN Fin(0, 0)
    ELSE IF isnan(Head(col)) THEN SumSeries(Tail(col))
    ELSE AddFloat(Head(col), SumSeries(Tail(col)))

----------------------------------------------------------------------------
(* pd.to_datetime(errors="coerce") on a column whose date texts all have   *)
(* the form "YYYY-MM-DD HH:MM"; a text of another shape, or one that names  *)
(* no calendar date or time of day, becomes NaT.                            *)

NaT == [ok |-> FALSE, y |-> 0, mo |-> 0, d |-> 0, h |-> 0, mi |-> 0]

IsLeap(y) == (y % 4 = 0 /\ y % 100 # 0) \/ y % 400 = 0

DaysInMonth(y, mo) ==
    IF mo = 2 THEN (IF IsLeap(y) THEN 29 ELSE 28)
    ELSE IF mo \in {4, 6, 9, 11} THEN 30 ELSE 31

DateShape(s) ==
    /\ Len(s) = 16
    /\ AllDigits(SubSeq(s, 1, 4)) /\ s[5] = "-"
    /\ AllDigits(SubSeq(s, 6, 7)) /\ s[8] = "-"
    /\ AllDigits(SubSeq(s, 9, 10)) /\ s[11] = " "
    /\ AllDigits(SubSeq(s, 12, 13)) /\ s[14] = ":"
    /\ AllDigits(SubSeq(s, 15, 16))

to_datetime(s) ==
    IF s = NaN \/ ~DateShape(s) THEN NaT
    ELSE LET y  == DigitsVal(SubSeq(s, 1, 4))
             mo == DigitsVal(SubSeq(s, 6, 7))
             d  == DigitsVal(SubSeq(s, 9, 10))
             h  == DigitsVal(SubSeq(s, 12, 13))
             mi == DigitsVal(SubSeq(s, 15, 16))
         IN  IF y >= 1 /\ mo \in 1..12 /\ d \in 1..DaysInMonth(y, mo) /\ h < 24 /\ mi < 60
             THEN [ok |-> TRUE, y |-> y, mo |-> mo, d |-> d, h |-> h, mi |-> mi]
             ELSE NaT

\* Series.dt.date of a valid timestamp
dt_date(t) == <<t.y, t.mo, t.d>>

\* datetime.date < datetime.date
DateLess(a, b) ==
    \/ a[1] < b[1]
    \/ a[1] = b[1] /\ a[2] < b[2]
    \/ a[1] = b[1] /\ a[2] = b[2] /\ a[3] < b[3]

----------------------------------------------------------------------------
(* DataFrame operations *)

\* DataFrame.empty
empty(df) == df = <<>>

\* df.dropna(subset=[col])
dropna(df, col) == SelectSeq(df, LAMBDA r : notna(r[col]))

\* Series.unique(): the distinct values in order of first appearance
RECURSIVE UniqueFrom(_, _)
UniqueFrom(vals, seen) ==
    IF vals = <<>> THEN seen
    ELSE IF \E k \in 1..Len(seen) : seen[k] = Head(vals) THEN UniqueFrom(Tail(vals), seen)
    ELSE UniqueFrom(Tail(vals), Append(seen, Head(vals)))

\* mutant of unique: the distinct values sorted
unique_sorted(df, col) ==
    SortSeq(UniqueFrom([k \in 1..Len(df) |-> df[k][col]], <<>>), StrLess)

unique(df, col) == UniqueFrom([k \in 1..Len(df) |-> df[k][col]], <<>>)

\* mutant of groupby_count: size() instead of count(), every row of the group counts
groupby_count_size(df) ==
    LET keys == SelectSeq(UniqueFrom([k \in 1..Len(df) |-> df[k][COL_NUCLEO]], <<>>), notna)
        ks   == SortSeq(keys, StrLess)
    IN  [k \in 1..Len(ks) |-> <<ks[k], Len(SelectSeq(df, LAMBDA r : r[COL_NUCLEO] = ks[k]))>>]

\* mutant of groupby_count: sort=False, the keys stay in first-seen order
groupby_count_unsorted(df) ==
    LET ks == SelectSeq(UniqueFrom([k \in 1..Len(df) |-> df[k][COL_NUCLEO]], <<>>), notna)
    IN  [k \in 1..Len(ks) |->
            <<ks[k], Len(SelectSeq(df, LAMBDA r : r[COL_NUCLEO] = ks[k] /\ notna(r[COL_CADASTRO])))>>]

(* df.groupby(COL_NUCLEO)[COL_CADASTRO].count().to_dict(): groupby sorts    *)
(* the group keys (sort=True) and drops NaN keys; count() counts the         *)
(* non-missing cells of the selected column in each group.                   *)
groupby_count(df) ==
    LET keys == SelectSeq(UniqueFrom([k \in 1..Len(df) |-> df[k][COL_NUCLEO]], <<>>), notna)
        ks   == SortSeq(keys, StrLess)
    IN  [k \in 1..Len(ks) |->
            <<ks[k], Len(SelectSeq(df, LAMBDA r : r[COL_NUCLEO] = ks[k] /\ notna(r[COL_CADASTRO])))>>]

\* mutant of groupby_date_size: sort=False, the dates stay in first-seen order
groupby_date_size_unsorted(df) ==
    LET valid == SelectSeq(df, LAMBDA r : r[COL_DATA].ok)
        keys  == UniqueFrom([k \in 1..Len(valid) |-> dt_date(valid[k][COL_DATA])], <<>>)
    IN  [k \in 1..Len(keys) |->
            <<keys[k], Len(SelectSeq(valid, LAMBDA r : dt_date(r[COL_DATA]) = keys[k]))>>]

(* df.groupby(df[COL_DATA].dt.date).size().to_dict(): keys are the calendar *)
(* dates of the valid timestamps, ascending; NaT rows fall in no group.      *)
groupby_date_size(df) ==
    LET valid == SelectSeq(df, LAMBDA r : r[COL_DATA].ok)
        keys  == SortSeq(UniqueFrom([k \in 1..Len(valid) |-> dt_date(valid[k][COL_DATA])], <<>>), DateLess)
    IN  [k \in 1..Len(keys) |->
            <<keys[k], Len(SelectSeq(valid, LAMBDA r : dt_date(r[COL_DATA]) = keys[k]))>>]

\* mutant of ColorMap: the index starts at 1 instead of 0
ColorMap_from_one(ns) == [k \in 1..Len(ns) |-> <<ns[k], cores[(k % Len(cores)) + 1]>>]

\* {nucleo: cores[i % len(cores)] for i, nucleo in enumerate(nucleos)}
ColorMap(ns) == [k \in 1..Len(ns) |-> <<ns[k], cores[((k - 1) % Len(cores)) + 1]>>]

\* d[key] for a dict held as its item sequence (a later item overwrites)
Lookup(d, key) == d[CHOOSE k \in 1..Len(d) : d[k][1] = key /\ \A j \in (k + 1)..Len(d) : d[j][1] # key][2]

\* f"{x}" of a cell: a missing cell prints as "nan"
Format(x) == IF x = NaN THEN <<"n", "a", "n">> ELSE x

NA == <<"N", "/", "A">>

----------------------------------------------------------------------------
(* The script *)

(* baixar_excel(url): requests.get, raise_for_status, pd.read_excel.  A      *)
(* requests.RequestException (timeout, transport or HTTP error) is caught:   *)
(* the error is printed and an empty DataFrame returned.  Any other          *)
(* exception (content that read_excel cannot parse) is not caught.           *)
FetchOutcomes == {"ok", "RequestException", "BadContent"}

baixar_excel(srv, outcome) ==
    CASE outcome = "ok" -> [df |-> srv, out |-> <<>>, raised |-> FALSE]
      [] outcome = "RequestException" ->
            [df |-> <<>>, out |-> <<"[ERRO] Falha ao baixar arquivo">>, raised |-> FALSE]
      [] OTHER -> [df |-> <<>>, out |-> <<"Traceback">>, raised |-> TRUE]

\* lines 49-50
BaixarOcorrencias ==
    /\ pc = "baixar_ocorrencias"
    /\ \E outcome \in FetchOutcomes :
         LET r == baixar_excel(srv_ocorrencias, outcome) IN
         /\ requests_log' = Append(requests_log, <<URL_OCORRENCIAS, outcome>>)
         /\ stdout' = stdout \o <<"[INFO] Baixando dados de ocorrencias...">> \o r.out
         /\ df_ocorrencias' = r.df
         /\ pc' = IF r.raised THEN "Traceback" ELSE "baixar_area"
    /\ UNCHANGED <<totais, srv_ocorrencias, srv_area, marker_validates, df_area, resumo_nucleo,
                   resumo_data, m, nucleos, cores_nucleo, bairro_i, fg, df_nucleo, row_i, arquivo>>

\* lines 51-52
BaixarArea ==
    /\ pc = "baixar_area"
    /\ \E outcome \in FetchOutcomes :
         LET r == baixar_excel(srv_area, outcome) IN
         /\ requests_log' = Append(requests_log, <<URL_AREA_ATUACAO, outcome>>)
         /\ stdout' = stdout \o <<"[INFO] Baixando dados de area de atuacao...">> \o r.out
         /\ df_area' = r.df
         /\ pc' = IF r.raised THEN "Traceback" ELSE "check"
    /\ UNCHANGED <<totais, srv_ocorrencias, srv_area, marker_validates, df_ocorrencias, resumo_nucleo,
                   resumo_data, m, nucleos, cores_nucleo, bairro_i, fg, df_nucleo, row_i, arquivo>>

\* mutants of DadosAusentes: only one table is checked / both must be empty
DadosAusentes_so_ocorrencias(d1, d2) == empty(d1)

DadosAusentes_and(d1, d2) == empty(d1) /\ empty(d2)

\* line 54: df_ocorrencias.empty or df_area.empty
DadosAusentes(d1, d2) == empty(d1) \/ empty(d2)

\* lines 54-55
CheckEmpty ==
    /\ pc = "check"
    /\ IF DadosAusentes(df_ocorrencias, df_area)
       THEN /\ pc' = "SystemExit"
            /\ stdout' = Append(stdout, "[ERRO] Nao foi possivel carregar os dados necessarios.")
       ELSE /\ pc' = "filtrar"
            /\ stdout' = stdout
    /\ UNCHANGED <<totais, srv_ocorrencias, srv_area, marker_validates, requests_log, df_ocorrencias,
                   df_area, resumo_nucleo, resumo_data, m, nucleos, cores_nucleo, bairro_i,
                   fg, df_nucleo, row_i, arquivo>>

\* line 58
Filtrar ==
    /\ pc = "filtrar"
    /\ df_ocorrencias' = dropna(df_ocorrencias, COL_NUCLEO)
    /\ pc' = "totais"
    /\ UNCHANGED <<totais, srv_ocorrencias, srv_area, marker_validates, requests_log, stdout, df_area,
                   resumo_nucleo, resumo_data, m, nucleos, cores_nucleo, bairro_i, fg,
                   df_nucleo, row_i, arquivo>>

\* Series.notna().sum() of a column of df
NotnaSum(df, col) == Len(SelectSeq(df, LAMBDA r : notna(r[col])))

\* lines 61-69
Totais ==
    /\ pc = "totais"
    /\ total_ocorrencias' = NotnaSum(df_ocorrencias, COL_CADASTRO)
    /\ soma_caixa_uma' = NotnaSum(df_ocorrencias, COL_CAIXA)
    /\ total_quantidade_instalacao' = NotnaSum(df_ocorrencias, COL_LIGACAO)
    /\ LET esgoto == converter_coluna_numerica(df_area, COL_ESGOTO)
           agua   == converter_coluna_numerica(df_area, COL_AGUA)
       IN  /\ df_area' = [k \in 1..Len(df_area) |->
                            (COL_ESGOTO :> esgoto[k]) @@ (COL_AGUA :> agua[k]) @@ df_area[k]]
           /\ total_rede_esgoto' = SumSeries(esgoto)
           /\ total_rede_agua' = SumSeries(agua)
    /\ pc' = "resumo_nucleo"
    /\ UNCHANGED <<srv_ocorrencias, srv_area, marker_validates, requests_log, stdout,
                   df_ocorrencias, resumo_nucleo, resumo_data, m, nucleos, cores_nucleo,
                   bairro_i, fg, df_nucleo, row_i, arquivo>>

\* line 72
ResumoNucleo ==
    /\ pc = "resumo_nucleo"
    /\ resumo_nucleo' = groupby_count(df_ocorrencias)
    /\ pc' = "resumo_data"
    /\ UNCHANGED <<totais, srv_ocorrencias, srv_area, marker_validates, requests_log, stdout,
                   df_ocorrencias, df_area, resumo_data, m, nucleos, cores_nucleo, bairro_i,
                   fg, df_nucleo, row_i, arquivo>>

\* lines 75-76
ResumoData ==
    /\ pc = "resumo_data"
    /\ LET parsed == [k \in 1..Len(df_ocorrencias) |->
                        [df_ocorrencias[k] EXCEPT ![COL_DATA] = to_datetime(@)]]
       IN  /\ df_ocorrencias' = parsed
           /\ resumo_data' = groupby_date_size(parsed)
    /\ pc' = "mapa"
    /\ UNCHANGED <<totais, srv_ocorrencias, srv_area, marker_validates, requests_log, stdout, df_area,
                   resumo_nucleo, m, nucleos, cores_nucleo, bairro_i, fg, df_nucleo, row_i,
                   arquivo>>

\* lines 81-150: the map and the panel; the panel's tables follow dict.items()
CriarMapa ==
    /\ pc = "mapa"
    /\ m' = [exists |-> TRUE,
             menu_geral |-> <<total_ocorrencias, soma_caixa_uma, total_quantidade_instalacao,
                              total_rede_agua, total_rede_esgoto>>,
             menu_nucleo |-> resumo_nucleo, menu_data |-> resumo_data,
             layers |-> <<>>, control |-> FALSE]
    /\ pc' = "cores"
    /\ UNCHANGED <<totais, srv_ocorrencias, srv_area, marker_validates, requests_log, stdout,
                   df_ocorrencias, df_area, resumo_nucleo, resumo_data, nucleos, cores_nucleo,
                   bairro_i, fg, df_nucleo, row_i, arquivo>>

\* lines 155-157
AtribuirCores ==
    /\ pc = "cores"
    /\ nucleos' = unique(df_ocorrencias, COL_NUCLEO)
    /\ cores_nucleo' = ColorMap(unique(df_ocorrencias, COL_NUCLEO))
    /\ bairro_i' = 1
    /\ pc' = "for_bairro"
    /\ UNCHANGED <<totais, srv_ocorrencias, srv_area, marker_validates, requests_log, stdout,
                   df_ocorrencias, df_area, resumo_nucleo, resumo_data, m, fg, df_nucleo,
                   row_i, arquivo>>

\* lines 159-163: next bairro, its FeatureGroup and its rows
NovoGrupo ==
    /\ pc = "for_bairro"
    /\ bairro_i <= Len(nucleos)
    /\ fg' = [name |-> nucleos[bairro_i], markers |-> <<>>]
    /\ df_nucleo' = SelectSeq(df_ocorrencias, LAMBDA r : r[COL_NUCLEO] = nucleos[bairro_i])
    /\ row_i' = 1
    /\ pc' = "for_row"
    /\ UNCHANGED <<totais, srv_ocorrencias, srv_area, marker_validates, requests_log, stdout,
                   df_ocorrencias, df_area, resumo_nucleo, resumo_data, m, nucleos,
                   cores_nucleo, bairro_i, arquivo>>

\* lines 169-178: the marker of a row whose coordinates are lat, lng
Marker(row, loc, bairro, colors) ==
    [location |-> loc,
     popup    |-> [nucleo      |-> Format(row[COL_NUCLEO]),
                   ocorrencia  |-> Format(row[COL_CADASTRO]),
                   funcionario |-> Format(RowGet(row, COL_FUNC, NA))],
     color    |-> Lookup(colors, bairro)]

\* lines 166-180: the markers one row adds to the FeatureGroup (none or one)
RowMarkers(row, bairro, colors, validates) ==
    LET geo == RowGet(row, COL_GEO, NaN) IN
    IF ~(notna(geo) /\ HasComma(geo)) THEN <<>>
    ELSE LET loc == UnpackLatLng(geo) IN
         IF loc = <<ValueError>> THEN <<>>
         ELSE IF MarkerRaises(loc, validates) THEN <<>>
         ELSE <<Marker(row, loc, bairro, colors)>>

\* lines 165-180: one iteration of the inner loop
ProcessarLinha ==
    /\ pc = "for_row"
    /\ row_i <= Len(df_nucleo)
    /\ fg' = [fg EXCEPT !.markers =
                 @ \o RowMarkers(df_nucleo[row_i], nucleos[bairro_i], cores_nucleo, marker_validates)]
    /\ row_i' = row_i + 1
    /\ UNCHANGED <<totais, srv_ocorrencias, srv_area, marker_validates, pc, requests_log, stdout,
                   df_ocorrencias, df_area, resumo_nucleo, resumo_data, m, nucleos,
                   cores_nucleo, bairro_i, df_nucleo, arquivo>>

\* line 182
AdicionarGrupo ==
    /\ pc = "for_row"
    /\ row_i > Len(df_nucleo)
    /\ m' = [m EXCEPT !.layers = Append(@, fg)]
    /\ bairro_i' = bairro_i + 1
    /\ pc' = "for_bairro"
    /\ UNCHANGED <<totais, srv_ocorrencias, srv_area, marker_validates, requests_log, stdout,
                   df_ocorrencias, df_area, resumo_nucleo, resumo_data, nucleos, cores_nucleo,
                   fg, df_nucleo, row_i, arquivo>>

\* line 185
LayerControl ==
    /\ pc = "for_bairro"
    /\ bairro_i > Len(nucleos)
    /\ m' = [m EXCEPT !.control = TRUE]
    /\ pc' = "save"
    /\ UNCHANGED <<totais, srv_ocorrencias, srv_area, marker_validates, requests_log, stdout,
                   df_ocorrencias, df_area, resumo_nucleo, resumo_data, nucleos, cores_nucleo,
                   bairro_i, fg, df_nucleo, row_i, arquivo>>

\* lines 190-191
Salvar ==
    /\ pc = "save"
    /\ arquivo' = [written |-> TRUE, layers |-> m.layers, menu_geral |-> m.menu_geral,
                   menu_nucleo |-> m.menu_nucleo, menu_data |-> m.menu_data]
    /\ stdout' = Append(stdout, "[SUCESSO] Mapa salvo")
    /\ pc' = "fim"
    /\ UNCHANGED <<totais, srv_ocorrencias, srv_area, marker_validates, requests_log, df_ocorrencias,
                   df_area, resumo_nucleo, resumo_data, m, nucleos, cores_nucleo, bairro_i, fg,
                   df_nucleo, row_i>>

Next ==
    \/ BaixarOcorrencias
    \/ BaixarArea
    \/ CheckEmpty
    \/ Filtrar
    \/ Totais
    \/ ResumoNucleo
    \/ ResumoData
    \/ CriarMapa
    \/ AtribuirCores
    \/ NovoGrupo
    \/ ProcessarLinha
    \/ AdicionarGrupo
    \/ LayerControl
    \/ Salvar

----------------------------------------------------------------------------
(* Inputs: the spreadsheets on the server *)

\* a row of the occurrence sheet that has every column
Row(n, c, d, g, f) ==
    (COL_NUCLEO :> n) @@ (COL_CADASTRO :> c) @@ (COL_CAIXA :> <<"1">>) @@ (COL_LIGACAO :> NaN)
       @@ (COL_DATA :> d) @@ (COL_GEO :> g) @@ (COL_FUNC :> f)

\* the tables of at most n rows drawn from rows
TablesOf(rows, n) == UNION {[1..k -> rows] : k \in 0..n}

\* a row of the coverage sheet
AreaRow(esgoto, agua) == (COL_ESGOTO :> esgoto) @@ (COL_AGUA :> agua)

AreaTables ==
    {<<>>,
     <<AreaRow(<<"1", "0", "0", ",", "5">>, <<"2", "0", "0", ",", "0">>),
       AreaRow(<<"2", "0", "0", ",", "0">>, <<"a", "b", "c">>)>>}

InitWith(tables, validates) ==
    /\ srv_ocorrencias \in tables
    /\ srv_area \in AreaTables
    /\ marker_validates \in validates
    /\ pc = "baixar_ocorrencias"
    /\ requests_log = <<>>
    /\ stdout = <<>>
    /\ df_ocorrencias = <<>>
    /\ df_area = <<>>
    /\ resumo_nucleo = <<>>
    /\ resumo_data = <<>>
    /\ m = NoMap
    /\ nucleos = <<>>
    /\ cores_nucleo = <<>>
    /\ bairro_i = 0
    /\ fg = NoGroup
    /\ df_nucleo = <<>>
    /\ row_i = 0
    /\ arquivo = NoFile
    /\ total_ocorrencias = 0
    /\ soma_caixa_uma = 0
    /\ total_quantidade_instalacao = 0
    /\ total_rede_esgoto = Fin(0, 0)
    /\ total_rede_agua = Fin(0, 0)

MaxRows == 3

DateMaxRows == 2

MaxParts == 3

MaxColorRows == 12

OCC1 == <<"1">>

JOAO == <<"J", "o">>

D1A == <<"2", "0", "2", "5", "-", "0", "1", "-", "0", "5", " ", "0", "9", ":", "3", "0">>

D1B == <<"2", "0", "2", "5", "-", "0", "1", "-", "0", "5", " ", "1", "7", ":", "0", "0">>

D0 == <<"2", "0", "2", "4", "-", "1", "2", "-", "3", "1", " ", "0", "8", ":", "0", "0">>

DBAD == <<"2", "0", "2", "5", "-", "0", "2", "-", "3", "0", " ", "0", "8", ":", "0", "0">>

GEO_OK == <<"1", ",", "2">>

GEO_BAD == <<"b", "a", "d">>

\* rows that differ in nucleo and in Geolocation
LayerRows ==
    {Row(n, OCC1, D1A, g, JOAO) : n \in {<<"B">>, <<"A">>, NaN}, g \in {GEO_OK, GEO_BAD, NaN}}

\* rows that differ in nucleo and in the primary occurrence field
CatRows ==
    {Row(n, c, D1A, GEO_OK, JOAO) : n \in {<<"B">>, <<"A">>, <<"A", "B">>, NaN}, c \in {OCC1, NaN}}

\* rows that differ in nucleo, in the registration date and in Geolocation
DateRows ==
    {Row(n, OCC1, d, g, JOAO) : n \in {<<"A">>, NaN}, d \in {D1A, D1B, D0, DBAD}, g \in {GEO_OK, GEO_BAD}}

\* a row of a sheet without the Geolocation column / without the employee column
RowNoGeo(n, c, d, f) ==
    (COL_NUCLEO :> n) @@ (COL_CADASTRO :> c) @@ (COL_CAIXA :> <<"1">>) @@ (COL_LIGACAO :> NaN)
       @@ (COL_DATA :> d) @@ (COL_FUNC :> f)

RowNoFunc(n, c, d, g) ==
    (COL_NUCLEO :> n) @@ (COL_CADASTRO :> c) @@ (COL_CAIXA :> <<"1">>) @@ (COL_LIGACAO :> NaN)
       @@ (COL_DATA :> d) @@ (COL_GEO :> g)

\* the parts the coordinate texts are made of
PartTokens == {<<"1">>, <<"-", "2", ".", "5">>, <<" ", "3", " ">>, <<"x">>, <<>>,
               <<"i", "n", "f">>, <<"n", "a", "n">>}

\* ",".join(parts)
RECURSIVE Join(_)
Join(parts) ==
    IF Len(parts) = 1 THEN parts[1] ELSE parts[1] \o <<",">> \o Join(Tail(parts))

\* the non-empty texts of at most MaxParts parts
GeoTexts == {Join(p) : p \in UNION {[1..k -> PartTokens] : k \in 1..MaxParts}} \ {<<>>}

GEO_45 == <<"4", ",", "5">>

GeoRows == {Row(<<"A">>, OCC1, D1A, g, JOAO) : g \in GeoTexts \cup {NaN}}
              \cup {RowNoGeo(<<"A">>, OCC1, D1A, JOAO)}

\* one row with any coordinate text, alone, or before or after a row with "4,5"
GeoTables ==
    {<<>>} \cup {<<r>> : r \in GeoRows}
           \cup {<<r, Row(<<"A">>, OCC1, D1A, GEO_45, JOAO)>> : r \in GeoRows}
           \cup {<<Row(<<"A">>, OCC1, D1A, GEO_45, JOAO), r>> : r \in GeoRows}

\* rows that differ in the primary occurrence field, in Geolocation and in the employee
PopupRows ==
    {Row(<<"A">>, c, D1A, g, f) : c \in {OCC1, NaN}, g \in {GEO_OK, GEO_BAD}, f \in {JOAO, NaN}}

PopupRowsNoFunc == {RowNoFunc(<<"A">>, c, D1A, g) : c \in {OCC1, NaN}, g \in {GEO_OK, GEO_BAD}}

PopupTables == TablesOf(PopupRows, MaxRows) \cup TablesOf(PopupRowsNoFunc, MaxRows)

ColorCats == <<(<<"C">>), <<"A">>, <<"B">>, <<"D">>, <<"E">>, <<"F">>, <<"G">>, <<"H">>, <<"I">>, <<"J">>>>

\* n rows whose categories walk through ColorCats from start in steps of step
ColorWalk(start, step, n) ==
    [k \in 1..n |->
        Row(ColorCats[((start + step * (k - 1)) % Len(ColorCats)) + 1], OCC1, D1A, GEO_OK, JOAO)]

\* walks of at most MaxColorRows rows, alone or after a row without category
ColorTables ==
    LET walks == {ColorWalk(start, step, n) :
                     start \in 1..Len(ColorCats), step \in {1, 3}, n \in 0..MaxColorRows}
    IN  walks \cup {<<Row(NaN, OCC1, D1A, GEO_OK, JOAO)>> \o w : w \in walks}

Init == InitWith(TablesOf(LayerRows, MaxRows), {TRUE})

Spec == Init /\ [][Next]_vars

InitCat == InitWith(TablesOf(CatRows, MaxRows), {TRUE})

SpecCat == InitCat /\ [][Next]_vars

InitDate == InitWith(TablesOf(DateRows, DateMaxRows), {TRUE})

SpecDate == InitDate /\ [][Next]_vars

InitGeo == InitWith(GeoTables, BOOLEAN)

SpecGeo == InitGeo /\ [][Next]_vars

InitPopup == InitWith(PopupTables, {TRUE})

SpecPopup == InitPopup /\ [][Next]_vars

InitColor == InitWith(ColorTables, {TRUE})

SpecColor == InitColor /\ [][Next]_vars

----------------------------------------------------------------------------
(* Vocabulary of the properties *)

\* the run has reached or passed the construction of the map
Assembled == pc \in {"save", "fim"}

\* a fetch of the k-th request failed: transport/HTTP failure, or an empty table
RequestFailed(k, srv) ==
    /\ Len(requests_log) >= k
    /\ \/ requests_log[k][2] = "RequestException"
       \/ requests_log[k][2] = "ok" /\ srv = <<>>

OccFailed == RequestFailed(1, srv_ocorrencias)

AreaFailed == RequestFailed(2, srv_area)

Last(q) == q[Len(q)]

Keys(d) == [k \in 1..Len(d) |-> d[k][1]]

RECURSIVE SumValues(_)
SumValues(d) == IF d = <<>> THEN 0 ELSE Head(d)[2] + SumValues(Tail(d))

\* indices of the rows of table t that satisfy P
RowsWhere(t, P(_)) == {k \in 1..Len(t) : P(t[k])}

HasNucleo(r) == r[COL_NUCLEO] # NaN

\* the non-missing categories of a table
Categories(t) == {t[k][COL_NUCLEO] : k \in RowsWhere(t, HasNucleo)}

\* index of the first row of table t with category c
FirstIndex(t, c) ==
    LET occ == {k \in 1..Len(t) : t[k][COL_NUCLEO] = c}
    IN  CHOOSE k \in occ : \A j \in occ : k <= j

\* zero-based rank of category c among the categories of t in first-seen order:
\* the number of distinct categories met before the first row of c
FirstSeenRank(t, c) ==
    Cardinality({t[j][COL_NUCLEO] : j \in 1..(FirstIndex(t, c) - 1)} \ {NaN})

Commas(s) == {k \in 1..Len(s) : s[k] = ","}

\* the text before / after the only comma of s
LatText(s) == SubSeq(s, 1, (CHOOSE k \in Commas(s) : TRUE) - 1)

LngText(s) == SubSeq(s, (CHOOSE k \in Commas(s) : TRUE) + 1, Len(s))

Numeric(s) == float(s) # ValueError

\* "lat,lng": a text with exactly one comma and two parts that float() accepts
WellFormed(g) == g # NaN /\ Cardinality(Commas(g)) = 1 /\ Numeric(LatText(g)) /\ Numeric(LngText(g))

HasNaNPart(g) == isnan(float(LatText(g))) \/ isnan(float(LngText(g)))

\* the row's coordinate makes a marker: well formed, and not refused by folium as NaN
YieldsMarker(r) ==
    LET g == RowGet(r, COL_GEO, NaN) IN
    WellFormed(g) /\ (HasNaNPart(g) => ~marker_validates)

Locations(markers) == [k \in 1..Len(markers) |-> markers[k].location]

\* every marker built so far: those of the layers of the map and of the current group
RECURSIVE Flatten(_)
Flatten(layers) == IF layers = <<>> THEN <<>> ELSE Head(layers).markers \o Flatten(Tail(layers))

AllMarkers == Flatten(m.layers) \o (IF pc = "for_row" THEN fg.markers ELSE <<>>)

----------------------------------------------------------------------------
(* Properties of the fetch stage, checked under Spec *)

(* C1: when the fetch of the occurrence source or of the coverage source    *)
(* fails (transport/HTTP failure or an empty table), the run never leaves   *)
(* the fetch stage except to end with a reported fatal error: no map is     *)
(* built and nothing is written to the output path.                         *)
C1_FetchFailureNoOutput ==
    (OccFailed \/ AreaFailed) =>
        /\ pc \in {"baixar_area", "check", "SystemExit", "Traceback"}
        /\ m = NoMap
        /\ arquivo = NoFile
        /\ pc = "SystemExit" => Last(stdout) = "[ERRO] Nao foi possivel carregar os dados necessarios."
        /\ pc = "Traceback" => Last(stdout) = "Traceback"

\* the coverage fetch alone failed and the run ended in SystemExit
C1_Witness ==
    /\ pc = "SystemExit"
    /\ AreaFailed /\ ~OccFailed
    /\ srv_area # <<>>
    /\ arquivo = NoFile

(* C8 as stated: a transport failure aborts the run immediately, so no      *)
(* request is made after a request that failed.                             *)
C8_NoRequestAfterFailure ==
    \A k \in 1..Len(requests_log) :
        requests_log[k][2] = "RequestException" => k = Len(requests_log)

(* C8 amended: a failed fetch is not retried (each URL is requested at most *)
(* once), no aggregation, map or export step runs after it, and the run is  *)
(* aborted by the emptiness check, which runs only after both sources have  *)
(* been requested: a failed occurrence fetch is followed by the coverage    *)
(* fetch.                                                                   *)
C8_AbortAtCheckNoRetry ==
    /\ \A i, j \in 1..Len(requests_log) : i # j => requests_log[i][1] # requests_log[j][1]
    /\ (\E k \in 1..Len(requests_log) : requests_log[k][2] = "RequestException") =>
          /\ pc \in {"baixar_area", "check", "SystemExit", "Traceback"}
          /\ resumo_nucleo = <<>> /\ resumo_data = <<>> /\ nucleos = <<>>
          /\ m = NoMap /\ arquivo = NoFile
    /\ pc = "SystemExit" =>
          /\ Len(requests_log) = 2
          /\ requests_log[1][1] = URL_OCORRENCIAS /\ requests_log[2][1] = URL_AREA_ATUACAO
    /\ (pc = "check" /\ requests_log[1][2] = "RequestException") => ENABLED CheckEmpty

\* the occurrence fetch failed, the coverage fetch was still made, then SystemExit
C8_Witness ==
    /\ pc = "SystemExit"
    /\ requests_log = <<<<URL_OCORRENCIAS, "RequestException">>, <<URL_AREA_ATUACAO, "ok">>>>

----------------------------------------------------------------------------
(* Properties of the layers, checked under Spec *)

ExampleTable ==
    <<Row(<<"A">>, OCC1, D1A, GEO_OK, JOAO), Row(<<"A">>, OCC1, D1A, GEO_BAD, JOAO),
      Row(<<"B">>, OCC1, D1A, GEO_OK, JOAO)>>

(* C5: the assembled map has exactly one layer per distinct non-missing     *)
(* category, in first-seen order, also for a category none of whose rows    *)
(* has a usable coordinate; each layer holds as many markers as there are   *)
(* rows of its category with a valid coordinate; the rows A(valid),         *)
(* A("bad"), B(valid) give 2 layers of 1 marker each and the summary        *)
(* {A: 2, B: 1}.                                                            *)
C5_OneLayerPerCategory ==
    Assembled =>
        LET t == srv_ocorrencias
            l == m.layers
        IN  /\ \A i, j \in 1..Len(l) : i # j => l[i].name # l[j].name
            /\ {l[i].name : i \in 1..Len(l)} = Categories(t)
            /\ \A i, j \in 1..Len(l) : i < j => FirstIndex(t, l[i].name) < FirstIndex(t, l[j].name)
            /\ \A i \in 1..Len(l) :
                 Len(l[i].markers) =
                    Cardinality({k \in 1..Len(t) : t[k][COL_NUCLEO] = l[i].name /\ YieldsMarker(t[k])})
            /\ t = ExampleTable =>
                 /\ Len(l) = 2
                 /\ l[1].name = <<"A">> /\ Len(l[1].markers) = 1
                 /\ l[2].name = <<"B">> /\ Len(l[2].markers) = 1
                 /\ resumo_nucleo = <<<<(<<"A">>), 2>>, <<(<<"B">>), 1>>>>
            /\ pc = "fim" => arquivo.layers = l

\* the run on the example table has finished
C5_Witness ==
    /\ pc = "fim"
    /\ srv_ocorrencias = ExampleTable
    /\ Len(m.layers) = 2

----------------------------------------------------------------------------
(* Properties of the summary by nucleo, checked under SpecCat *)

\* resumo_nucleo has been computed
NucleoDone == pc \in {"resumo_data", "mapa", "cores", "for_bairro", "for_row", "save", "fim"}

\* resumo_data has been computed
DataDone == pc \in {"mapa", "cores", "for_bairro", "for_row", "save", "fim"}

HasCadastro(r) == r[COL_CADASTRO] # NaN

(* C2 as stated: the counts of resumo_nucleo sum to the number of           *)
(* occurrence rows with a non-missing category, rows with a missing         *)
(* primary occurrence field included.                                       *)
C2_SumCountsAllCategoryRows ==
    NucleoDone => SumValues(resumo_nucleo) = Cardinality(RowsWhere(srv_ocorrencias, HasNucleo))

(* C2 amended: the counts of resumo_nucleo sum to the number of occurrence  *)
(* rows whose category and primary occurrence field are both non-missing;   *)
(* each category's count is the number of such rows of that category, so a  *)
(* row with a missing primary occurrence field is not counted.              *)
C2_SumCountsRowsWithCadastro ==
    NucleoDone =>
        /\ SumValues(resumo_nucleo) =
              Cardinality({k \in RowsWhere(srv_ocorrencias, HasNucleo) : HasCadastro(srv_ocorrencias[k])})
        /\ \A i \in 1..Len(resumo_nucleo) :
              resumo_nucleo[i][2] =
                 Cardinality({k \in 1..Len(srv_ocorrencias) :
                                 /\ srv_ocorrencias[k][COL_NUCLEO] = resumo_nucleo[i][1]
                                 /\ HasCadastro(srv_ocorrencias[k])})

\* a table with a category row lacking the primary field has been summarised
C2_Witness ==
    /\ NucleoDone
    /\ \E k \in RowsWhere(srv_ocorrencias, HasNucleo) : ~HasCadastro(srv_ocorrencias[k])
    /\ SumValues(resumo_nucleo) >= 1
    /\ SumValues(resumo_nucleo) < Cardinality(RowsWhere(srv_ocorrencias, HasNucleo))

(* C7 as stated: the keys of resumo_nucleo, and the rows of the panel's     *)
(* category table, are in the order in which the categories were first      *)
(* encountered, which is the order of the map's layers.                     *)
C7_KeysInFirstSeenOrder ==
    Assembled =>
        /\ Keys(resumo_nucleo) = [i \in 1..Len(m.layers) |-> m.layers[i].name]
        /\ Keys(m.menu_nucleo) = Keys(resumo_nucleo)

(* C7 amended: the keys of resumo_nucleo are the distinct non-missing       *)
(* categories in ascending order of their names (code-point order), and     *)
(* the panel's category table has the same rows in the same order; this is  *)
(* the first-seen order of the layers only when the categories first        *)
(* appear in ascending order.                                               *)
C7_KeysAscending ==
    NucleoDone =>
        /\ \A i, j \in 1..Len(resumo_nucleo) :
              i < j => StrLess(resumo_nucleo[i][1], resumo_nucleo[j][1])
        /\ {resumo_nucleo[i][1] : i \in 1..Len(resumo_nucleo)} = Categories(srv_ocorrencias)
        /\ m.exists => m.menu_nucleo = resumo_nucleo
        /\ Assembled =>
              (Keys(resumo_nucleo) = [i \in 1..Len(m.layers) |-> m.layers[i].name]
                 <=> \A i, j \in 1..Len(m.layers) :
                        i < j => StrLess(m.layers[i].name, m.layers[j].name))

\* "B" is seen before "A": the layers are B, A and the summary keys A, B
C7_Witness ==
    /\ pc = "fim"
    /\ Len(m.layers) >= 2
    /\ m.layers[1].name = <<"B">> /\ m.layers[2].name = <<"A">>
    /\ Keys(m.menu_nucleo)[1] = <<"A">>

----------------------------------------------------------------------------
(* Properties of row-scoped errors, checked under SpecDate *)

DateParses(r) == to_datetime(r[COL_DATA]).ok

\* rows with a category whose registration date parses
DatedRows(t) == {k \in RowsWhere(t, HasNucleo) : DateParses(t[k])}

(* C10: a row with a malformed or missing coordinate is left out of the     *)
(* markers only, and counts in resumo_nucleo and resumo_data like any       *)
(* other row; a row with an unparseable date is left out of resumo_data     *)
(* only, and still counts in resumo_nucleo and yields its marker; the       *)
(* counts of resumo_data sum to the number of category-bearing rows with a  *)
(* parseable date, and its keys ascend chronologically.                     *)
C10_RowErrorsIsolated ==
    LET t == srv_ocorrencias IN
    /\ NucleoDone =>
          \A i \in 1..Len(resumo_nucleo) :
             resumo_nucleo[i][2] =
                Cardinality({k \in 1..Len(t) : t[k][COL_NUCLEO] = resumo_nucleo[i][1] /\ HasCadastro(t[k])})
    /\ DataDone =>
          /\ SumValues(resumo_data) = Cardinality(DatedRows(t))
          /\ \A i, j \in 1..Len(resumo_data) : i < j => DateLess(resumo_data[i][1], resumo_data[j][1])
          /\ {resumo_data[i][1] : i \in 1..Len(resumo_data)}
                = {dt_date(to_datetime(t[k][COL_DATA])) : k \in DatedRows(t)}
          /\ \A i \in 1..Len(resumo_data) :
                resumo_data[i][2] =
                   Cardinality({k \in DatedRows(t) : dt_date(to_datetime(t[k][COL_DATA])) = resumo_data[i][1]})
    /\ Assembled =>
          /\ Len(m.layers) = Cardinality(Categories(t))
          /\ \A i \in 1..Len(m.layers) :
                Len(m.layers[i].markers) =
                   Cardinality({k \in 1..Len(t) : t[k][COL_NUCLEO] = m.layers[i].name /\ YieldsMarker(t[k])})
          /\ m.menu_data = resumo_data

\* one row with a bad coordinate and a good date, one with a good coordinate and a bad date
C10_Witness ==
    /\ pc = "fim"
    /\ Len(srv_ocorrencias) = 2
    /\ \E k \in DatedRows(srv_ocorrencias) : ~YieldsMarker(srv_ocorrencias[k])
    /\ \E k \in RowsWhere(srv_ocorrencias, HasNucleo) :
          YieldsMarker(srv_ocorrencias[k]) /\ ~DateParses(srv_ocorrencias[k])
    /\ SumValues(resumo_nucleo) = 2
    /\ SumValues(resumo_data) = 1
    /\ Len(m.layers[1].markers) = 1

----------------------------------------------------------------------------
(* Properties of the coordinate parsing, checked under SpecGeo *)

\* the locations the rows of category c should give, in row order
RECURSIVE ExpectedLocations(_, _)
ExpectedLocations(t, c) ==
    IF t = <<>> THEN <<>>
    ELSE (IF Head(t)[COL_NUCLEO] = c /\ YieldsMarker(Head(t))
          THEN <<(<<float(LatText(Head(t)[COL_GEO])), float(LngText(Head(t)[COL_GEO]))>>)>>
          ELSE <<>>) \o ExpectedLocations(Tail(t), c)

C6_MarkersFinite ==
    \A k \in 1..Len(AllMarkers) :
        isfinite(AllMarkers[k].location[1]) /\ isfinite(AllMarkers[k].location[2])

----------------------------------------------------------------------------
(* Properties of the popup, checked under SpecPopup *)

EmployeeAbsent(r) == COL_FUNC \notin DOMAIN r \/ r[COL_FUNC] = NaN

\* the popups the rows of a table should give, in row order
RECURSIVE ExpectedPopups(_)
ExpectedPopups(t) ==
    IF t = <<>> THEN <<>>
    ELSE (IF HasNucleo(Head(t)) /\ YieldsMarker(Head(t))
          THEN <<[nucleo      |-> Head(t)[COL_NUCLEO],
                  ocorrencia  |-> Format(Head(t)[COL_CADASTRO]),
                  funcionario |-> IF EmployeeAbsent(Head(t)) THEN NA ELSE Head(t)[COL_FUNC]]>>
          ELSE <<>>) \o ExpectedPopups(Tail(t))

(* C9: the popup of every marker shows the row's category, its primary      *)
(* occurrence identifier and its employee name, and "N/A" whenever the      *)
(* employee name is absent: when the column does not exist and when the     *)
(* row's cell is missing.                                                   *)
C9_PopupEmployeeOrNA ==
    Assembled =>
        \A i \in 1..Len(m.layers) :
            [k \in 1..Len(m.layers[i].markers) |-> m.layers[i].markers[k].popup]
               = ExpectedPopups(SelectSeq(srv_ocorrencias, LAMBDA r : r[COL_NUCLEO] = m.layers[i].name))

----------------------------------------------------------------------------
(* Properties of the colours, checked under SpecColor *)

\* cores_nucleo has been computed
ColorsDone == pc \in {"for_bairro", "for_row", "save", "fim"}

(* C4: the i-th distinct category in first-seen order (0-indexed, among     *)
(* rows with a category) has the colour palette[i mod 8] of the palette of  *)
(* 8 colours, so the 9th category has the colour of the 1st; every marker   *)
(* of a category has that colour, from the assignment to the end of the     *)
(* run.                                                                     *)
C4_ColorByFirstSeenRank ==
    LET t == srv_ocorrencias IN
    /\ Len(cores) = 8 /\ \A i, j \in 1..Len(cores) : i # j => cores[i] # cores[j]
    /\ ColorsDone =>
          /\ {cores_nucleo[i][1] : i \in 1..Len(cores_nucleo)} = Categories(t)
          /\ \A i \in 1..Len(cores_nucleo) :
                /\ FirstSeenRank(t, cores_nucleo[i][1]) = i - 1
                /\ cores_nucleo[i][2] = cores[((i - 1) % 8) + 1]
                /\ i > 8 => cores_nucleo[i][2] = cores_nucleo[i - 8][2]
    /\ \A i \in 1..Len(m.layers) :
          LET color == cores[(FirstSeenRank(t, m.layers[i].name) % 8) + 1]
          IN  \A k \in 1..Len(m.layers[i].markers) : m.layers[i].markers[k].color = color
    /\ pc = "for_row" =>
          LET color == cores[(FirstSeenRank(t, fg.name) % 8) + 1]
          IN  \A k \in 1..Len(fg.markers) : fg.markers[k].color = color

\* nine layers or more: the 9th has the colour of the 1st, whose two markers agree
C4_Witness ==
    /\ pc = "fim"
    /\ Len(m.layers) >= 9
    /\ Len(m.layers[1].markers) >= 2
    /\ m.layers[1].markers[1].color = "red" /\ m.layers[1].markers[2].color = "red"
    /\ m.layers[9].markers[1].color = "red"
    /\ m.layers[8].markers[1].color = "darkgreen"

====
